---------------------------- MODULE Spec2Model ----------------------------
(***************************************************************************)
(* Model of the GronkUtils logger library (ULoggerLibrary).                *)
(*                                                                         *)
(* The library is a set of static functions over one static member,        *)
(* DisplayLogLevel.  Its collaborators are the engine's log macro UE_LOG   *)
(* (the log sink), GEngine->AddOnScreenDebugMessage (the overlay) and the  *)
(* UObject introspection calls GetName, GetOwner, Cast and IsValid.        *)
(*                                                                         *)
(* LogSink, Overlay and logCalls hold what the most recent library call    *)
(* sent to the sink, posted to the overlay, and passed to LogMessage.      *)
(* running is FALSE once the process has been terminated.                  *)
(***************************************************************************)
EXTENDS Integers, Sequences, FiniteSets, TLC

VARIABLES DisplayLogLevel, GEngine, running, LogSink, Overlay, logCalls,
          OutExecs, call, lastSet

vars == <<DisplayLogLevel, GEngine, running, LogSink, Overlay, logCalls,
          OutExecs, call, lastSet>>

---------------------------------------------------------------------------
(* enum class ELoggerLevel : uint8 *)

VeryVerbose == 0
Verbose == 1
Log == 2
Display == 3
Warning == 4
Error == 5
Fatal == 6

ELoggerLevel == {VeryVerbose, Verbose, Log, Display, Warning, Error, Fatal}

\* The enumerator names, in declaration order.
ELoggerLevelNames ==
    <<"VeryVerbose", "Verbose", "Log", "Display", "Warning", "Error", "Fatal">>

ELoggerLevelName(Level) == ELoggerLevelNames[Level + 1]

\* A uint8 that names no enumerator can reach the library from C++ through a
\* static_cast; the switch's default branch and GetColorForLevel's fallback
\* handle it.  Levels are the values 0..MaxLevelValue.
MaxLevelValue == 7

Levels == 0..MaxLevelValue

ELogValidityCondition == {"LogWhenValid", "LogWhenInvalid"}

ELogBooleanCondition == {"LogWhenTrue", "LogWhenFalse"}

EValidityOutcome == {"IsValid", "IsNotValid"}

EConditionOutcome == {"IsTrue", "IsFalse"}

---------------------------------------------------------------------------
(* Object references (UObject* ) *)

\* A reference is null, or points at an object with a name.  isComponent is
\* the result of Cast<UActorComponent>; hasOwner/ownerName the result of
\* UActorComponent::GetOwner(); valid is FALSE for an object that has been
\* destroyed but whose pointer is still non-null.
NullObject ==
    [isNull |-> TRUE, isComponent |-> FALSE, name |-> "",
     hasOwner |-> FALSE, ownerName |-> "", valid |-> FALSE]

Object(name, valid) ==
    [isNull |-> FALSE, isComponent |-> FALSE, name |-> name,
     hasOwner |-> FALSE, ownerName |-> "", valid |-> valid]

OwnedComponent(name, ownerName) ==
    [isNull |-> FALSE, isComponent |-> TRUE, name |-> name,
     hasOwner |-> TRUE, ownerName |-> ownerName, valid |-> TRUE]

UnownedComponent(name) ==
    [isNull |-> FALSE, isComponent |-> TRUE, name |-> name,
     hasOwner |-> FALSE, ownerName |-> "", valid |-> TRUE]

Callers ==
    {NullObject, Object("Pawn1", TRUE),
     OwnedComponent("HealthComponent", "Player"),
     UnownedComponent("HealthComponent")}

\* The callers and messages the typed variants and the gates are called with.
WrapperCallers == {NullObject, OwnedComponent("HealthComponent", "Player")}

\* The objects LogOnValidity tests: absent, live, destroyed.
InObjects == {NullObject, Object("Target", TRUE), Object("Target", FALSE)}

\* The objects LogObject appends.
ObjectValues == {NullObject, Object("Target", TRUE)}

Messages == {"Low health", "Alive", "Target"}

WrapperMessages == {"Alive", "Target"}

\* IsValid(const UObject*): non-null and not destroyed.
IsValid(InObject) == ~InObject.isNull /\ InObject.valid

GetName(Obj) == Obj.name

---------------------------------------------------------------------------
(* Stringification helpers of the engine, as the library calls them *)

Digits == <<"0", "1", "2", "3", "4", "5", "6", "7", "8", "9">>

RECURSIVE NatToString(_)
NatToString(n) ==
    IF n < 10 THEN Digits[n + 1]
    ELSE NatToString(n \div 10) \o Digits[(n % 10) + 1]

\* FString::FromInt(int32): decimal text, "-" in front of a negative value.
FromInt(Value) ==
    IF Value < 0 THEN "-" \o NatToString(0 - Value) ELSE NatToString(Value)

\* A double is modelled by its number of tenths (15 is 1.5).
\* FString::SanitizeFloat(double, MinFractionalDigits = 1) prints the value
\* with six fractional digits and then drops trailing zeros while more than
\* MinFractionalDigits fractional digits are left.
MinFractionalDigits == 1

RECURSIVE TrimTrailingZeros(_)
TrimTrailingZeros(frac) ==
    IF Len(frac) > MinFractionalDigits /\ frac[Len(frac)] = 0
    THEN TrimTrailingZeros(SubSeq(frac, 1, Len(frac) - 1))
    ELSE frac

RECURSIVE DigitsToString(_)
DigitsToString(ds) ==
    IF ds = <<>> THEN "" ELSE Digits[Head(ds) + 1] \o DigitsToString(Tail(ds))

SanitizeFloat(Value) ==
    LET mag == IF Value < 0 THEN 0 - Value ELSE Value
        frac == <<mag % 10, 0, 0, 0, 0, 0>>
    IN (IF Value < 0 THEN "-" ELSE "")
         \o NatToString(mag \div 10) \o "."
         \o DigitsToString(TrimTrailingZeros(frac))

\* Value ? TEXT("true") : TEXT("false")
BoolText(Value) == IF Value THEN "true" ELSE "false"

\* Value != nullptr ? Value->GetName() : TEXT("NULL")
ObjectName(Value) == IF ~Value.isNull THEN GetName(Value) ELSE "NULL"

\* UEnum::GetValueAsString(Level): the enumerator's full name, which for an
\* enum class carries the enum's name as a prefix; a value that names no
\* enumerator gives NAME_None.
GetValueAsString(Level) ==
    IF Level \in ELoggerLevel
    THEN "ELoggerLevel::" \o ELoggerLevelName(Level)
    ELSE "None"

---------------------------------------------------------------------------
(* LoggerLibrary.cpp *)

LevelColorMap ==
    [Level \in ELoggerLevel |->
        CASE Level = VeryVerbose -> "Purple"
          [] Level = Verbose     -> "Blue"
          [] Level = Log         -> "White"
          [] Level = Display     -> "Cyan"
          [] Level = Warning     -> "Yellow"
          [] Level = Error       -> "Red"
          [] Level = Fatal       -> "Magenta"]

GetColorForLevel_Threshold(Level) ==
    IF DisplayLogLevel \in DOMAIN LevelColorMap
    THEN LevelColorMap[DisplayLogLevel]
    ELSE "White"

GetColorForLevel(Level) ==
    IF Level \in DOMAIN LevelColorMap THEN LevelColorMap[Level] ELSE "White"

ContextName_OwnerOnly(Caller) ==
    IF ~Caller.isNull /\ Caller.isComponent
    THEN IF Caller.hasOwner THEN Caller.ownerName ELSE GetName(Caller)
    ELSE IF ~Caller.isNull THEN GetName(Caller) ELSE "UnknownContext"

\* The context name: "<Owner>.<Component>" for an actor component whose
\* GetOwner() is non-null, the caller's own name for any other non-null
\* caller, "UnknownContext" for a null caller.
ContextName(Caller) ==
    IF ~Caller.isNull /\ Caller.isComponent
    THEN IF Caller.hasOwner
         THEN Caller.ownerName \o "." \o GetName(Caller)
         ELSE GetName(Caller)
    ELSE IF ~Caller.isNull THEN GetName(Caller) ELSE "UnknownContext"

\* FString::Printf(TEXT("[%s]\t%s: %s"), ...)
LogString(Caller, Message, Level) ==
    "[" \o GetValueAsString(Level) \o "]\t" \o ContextName(Caller)
        \o ": " \o Message

SinkVerbosity_Fallthrough(Level) ==
    CASE Level = VeryVerbose -> "VeryVerbose"
      [] Level = Verbose     -> "Verbose"
      [] Level = Log         -> "Log"
      [] Level = Display     -> "Display"
      [] Level = Warning     -> "Error"
      [] Level = Error       -> "Error"
      [] Level = Fatal       -> "Fatal"
      [] OTHER               -> "Log"

\* switch (Level): the verbosity the UE_LOG call is made at.
SinkVerbosity(Level) ==
    CASE Level = VeryVerbose -> "VeryVerbose"
      [] Level = Verbose     -> "Verbose"
      [] Level = Log         -> "Log"
      [] Level = Display     -> "Display"
      [] Level = Warning     -> "Warning"
      [] Level = Error       -> "Error"
      [] Level = Fatal       -> "Fatal"
      [] OTHER               -> "Log"

\* UE_LOG at verbosity Fatal writes the line and then terminates the process;
\* the statement after the macro is never reached.
UELogReturns(Verbosity) == Verbosity # "Fatal"

\* static_cast<uint8>(Level) >= static_cast<uint8>(DisplayLogLevel)
ShouldDisplay(Level) == Level >= DisplayLogLevel

\* Arguments of GEngine->AddOnScreenDebugMessage(-1, 5.f, TextColor, LogString)
OnScreenKey == -1

TimeToDisplay == 5

\* void ULoggerLibrary::LogMessage(UObject* Caller, const FString& Message,
\*                                 ELoggerLevel Level)
LogMessage(Caller, Message, Level) ==
    LET Line == LogString(Caller, Message, Level)
        Verbosity == SinkVerbosity(Level)
    IN /\ logCalls' = <<[Caller |-> Caller, Message |-> Message, Level |-> Level]>>
       /\ LogSink' = <<[Verbosity |-> Verbosity, Text |-> Line]>>
       /\ running' = UELogReturns(Verbosity)
       /\ Overlay' =
            IF UELogReturns(Verbosity) /\ ShouldDisplay(Level) /\ GEngine
            THEN <<[Key |-> OnScreenKey, TimeToDisplay |-> TimeToDisplay,
                    Color |-> GetColorForLevel(Level), Text |-> Line]>>
            ELSE <<>>

\* A path through a library function that does not call LogMessage.
NoLogMessage ==
    /\ logCalls' = <<>>
    /\ LogSink' = <<>>
    /\ Overlay' = <<>>
    /\ running' = running

SetDisplayLogLevel_Dropped(NewDisplayLevel) ==
    DisplayLogLevel' = DisplayLogLevel

\* void ULoggerLibrary::SetDisplayLogLevel(ELoggerLevel NewDisplayLevel)
SetDisplayLogLevel(NewDisplayLevel) ==
    DisplayLogLevel' = NewDisplayLevel

LogBool(Caller, Message, Value, Level) ==
    LogMessage(Caller, Message \o ": " \o BoolText(Value), Level)

LogInt(Caller, Message, Value, Level) ==
    LogMessage(Caller, Message \o ": " \o FromInt(Value), Level)

LogFloat(Caller, Message, Value, Level) ==
    LogMessage(Caller, Message \o ": " \o SanitizeFloat(Value), Level)

LogObject(Caller, Message, Value, Level) ==
    LogMessage(Caller, Message \o ": " \o ObjectName(Value), Level)

\* LogVector and LogRotator are declared in LoggerLibrary.h, but
\* LoggerLibrary.cpp defines neither: there is no body that could build a
\* message or call LogMessage.
LogVector(Caller, Message, Value, Level) == NoLogMessage

LogRotator(Caller, Message, Value, Level) == NoLogMessage

\* void ULoggerLibrary::LogOnValidity(...).  OutExecs is assigned by the last
\* statement; "None" stands for an outcome that was never delivered.
LogOnValidity(Caller, InObject, Condition, Message, Level) ==
    LET bShouldLog ==
            IF Condition = "LogWhenInvalid" THEN ~IsValid(InObject)
            ELSE IF Condition = "LogWhenValid" THEN IsValid(InObject)
            ELSE FALSE
    IN /\ IF bShouldLog THEN LogMessage(Caller, Message, Level) ELSE NoLogMessage
       /\ OutExecs' =
            IF running'
            THEN (IF IsValid(InObject) THEN "IsValid" ELSE "IsNotValid")
            ELSE "None"

\* void ULoggerLibrary::LogOnCondition(...)
LogOnCondition(Caller, Condition, LogCondition, Message, Level) ==
    /\ IF \/ (LogCondition = "LogWhenTrue" /\ Condition)
          \/ (LogCondition = "LogWhenFalse" /\ ~Condition)
       THEN LogMessage(Caller, Message, Level)
       ELSE NoLogMessage
    /\ OutExecs' =
         IF running' THEN (IF Condition THEN "IsTrue" ELSE "IsFalse") ELSE "None"

---------------------------------------------------------------------------
(* The callers of the library: one action per library function *)

\* Values handed to LogInt (int32), LogFloat (double, in tenths) and to
\* LogVector / LogRotator (three components).
MaxIntValue == 42

MaxTenths == 15

IntValues == {0 - MaxIntValue, MaxIntValue}

FloatValues == {0 - 5, MaxTenths}

VectorValues == {<<0, 0, 0>>}

Invocation(op, Caller, Message, Level, arg) ==
    [op |-> op, Caller |-> Caller, Message |-> Message, Level |-> Level,
     arg |-> arg]

Init ==
    /\ DisplayLogLevel = Display
    /\ GEngine \in BOOLEAN
    /\ running = TRUE
    /\ LogSink = <<>>
    /\ Overlay = <<>>
    /\ logCalls = <<>>
    /\ OutExecs = "None"
    /\ call = Invocation("None", NullObject, "", Display, <<>>)
    /\ lastSet = Display

CallSetDisplayLogLevel ==
    \E NewDisplayLevel \in Levels :
        /\ running
        /\ SetDisplayLogLevel(NewDisplayLevel)
        /\ NoLogMessage
        /\ OutExecs' = "None"
        /\ call' = Invocation("SetDisplayLogLevel", NullObject, "",
                              NewDisplayLevel, <<>>)
        /\ lastSet' = NewDisplayLevel
        /\ UNCHANGED GEngine

CallLogMessage ==
    \E Caller \in Callers, Message \in Messages, Level \in Levels :
        /\ running
        /\ LogMessage(Caller, Message, Level)
        /\ OutExecs' = "None"
        /\ call' = Invocation("LogMessage", Caller, Message, Level, <<>>)
        /\ UNCHANGED <<DisplayLogLevel, GEngine, lastSet>>

CallLogBool ==
    \E Caller \in WrapperCallers, Message \in WrapperMessages, Value \in BOOLEAN,
       Level \in Levels :
        /\ running
        /\ LogBool(Caller, Message, Value, Level)
        /\ OutExecs' = "None"
        /\ call' = Invocation("LogBool", Caller, Message, Level, <<Value>>)
        /\ UNCHANGED <<DisplayLogLevel, GEngine, lastSet>>

CallLogInt ==
    \E Caller \in WrapperCallers, Message \in WrapperMessages, Value \in IntValues,
       Level \in Levels :
        /\ running
        /\ LogInt(Caller, Message, Value, Level)
        /\ OutExecs' = "None"
        /\ call' = Invocation("LogInt", Caller, Message, Level, <<Value>>)
        /\ UNCHANGED <<DisplayLogLevel, GEngine, lastSet>>

CallLogFloat ==
    \E Caller \in WrapperCallers, Message \in WrapperMessages, Value \in FloatValues,
       Level \in Levels :
        /\ running
        /\ LogFloat(Caller, Message, Value, Level)
        /\ OutExecs' = "None"
        /\ call' = Invocation("LogFloat", Caller, Message, Level, <<Value>>)
        /\ UNCHANGED <<DisplayLogLevel, GEngine, lastSet>>

CallLogVector ==
    \E Caller \in WrapperCallers, Message \in WrapperMessages, Value \in VectorValues,
       Level \in Levels :
        /\ running
        /\ LogVector(Caller, Message, Value, Level)
        /\ OutExecs' = "None"
        /\ call' = Invocation("LogVector", Caller, Message, Level, <<Value>>)
        /\ UNCHANGED <<DisplayLogLevel, GEngine, lastSet>>

CallLogRotator ==
    \E Caller \in WrapperCallers, Message \in WrapperMessages, Value \in VectorValues,
       Level \in Levels :
        /\ running
        /\ LogRotator(Caller, Message, Value, Level)
        /\ OutExecs' = "None"
        /\ call' = Invocation("LogRotator", Caller, Message, Level, <<Value>>)
        /\ UNCHANGED <<DisplayLogLevel, GEngine, lastSet>>

CallLogObject ==
    \E Caller \in WrapperCallers, Message \in WrapperMessages, Value \in ObjectValues,
       Level \in Levels :
        /\ running
        /\ LogObject(Caller, Message, Value, Level)
        /\ OutExecs' = "None"
        /\ call' = Invocation("LogObject", Caller, Message, Level, <<Value>>)
        /\ UNCHANGED <<DisplayLogLevel, GEngine, lastSet>>

CallLogOnValidity ==
    \E Caller \in WrapperCallers, InObject \in InObjects,
       Condition \in ELogValidityCondition, Message \in WrapperMessages,
       Level \in Levels :
        /\ running
        /\ LogOnValidity(Caller, InObject, Condition, Message, Level)
        /\ call' = Invocation("LogOnValidity", Caller, Message, Level,
                              <<InObject, Condition>>)
        /\ UNCHANGED <<DisplayLogLevel, GEngine, lastSet>>

CallLogOnCondition ==
    \E Caller \in WrapperCallers, Condition \in BOOLEAN,
       LogCondition \in ELogBooleanCondition, Message \in WrapperMessages,
       Level \in Levels :
        /\ running
        /\ LogOnCondition(Caller, Condition, LogCondition, Message, Level)
        /\ call' = Invocation("LogOnCondition", Caller, Message, Level,
                              <<Condition, LogCondition>>)
        /\ UNCHANGED <<DisplayLogLevel, GEngine, lastSet>>

Next ==
    \/ CallSetDisplayLogLevel
    \/ CallLogMessage
    \/ CallLogBool
    \/ CallLogInt
    \/ CallLogFloat
    \/ CallLogVector
    \/ CallLogRotator
    \/ CallLogObject
    \/ CallLogOnValidity
    \/ CallLogOnCondition

Spec == Init /\ [][Next]_vars

---------------------------------------------------------------------------
(* Properties *)

\* The arguments a gate or a typed variant must hand to LogMessage unchanged.
PassedThrough(Message) ==
    <<[Caller |-> call.Caller, Message |-> Message, Level |-> call.Level]>>

\* What the context name of a caller is stated to be: the sentinel for no
\* caller, "<Parent>.<Caller>" when the caller exposes an owner, and the
\* caller's own name otherwise.
StatedContext(Caller) ==
    IF Caller.isNull THEN "UnknownContext"
    ELSE IF Caller.hasOwner THEN Caller.ownerName \o "." \o Caller.name
    ELSE Caller.name

\* C1: with the threshold at s2, a LogMessage call at a severity s1 < s2
\* sends its line to the sink and posts nothing to the overlay, and a call at
\* any severity s >= s2, Fatal included, sends the same line to both (stated
\* for a host whose overlay exists, GEngine non-null).
C1_ThresholdRouting ==
    (/\ call.op = "LogMessage"
     /\ call.Level \in ELoggerLevel
     /\ DisplayLogLevel \in ELoggerLevel
     /\ GEngine)
    => /\ Len(LogSink) = 1
       /\ (call.Level < DisplayLogLevel => Overlay = <<>>)
       /\ (call.Level >= DisplayLogLevel
             => Len(Overlay) = 1 /\ Overlay[1].Text = LogSink[1].Text)

\* C2: every LogMessage call, at each of the seven severities and whatever
\* the threshold, sends exactly one formatted line to the sink at the
\* verbosity named like the severity; nothing else reaches the sink.
C2_SinkAlways ==
    /\ Len(LogSink) = Len(logCalls)
    /\ (call.op = "LogMessage" => Len(logCalls) = 1)
    /\ \A i \in 1..Len(logCalls) :
          logCalls[i].Level \in ELoggerLevel
          => /\ LogSink[i].Verbosity = ELoggerLevelName(logCalls[i].Level)
             /\ LogSink[i].Text = LogString(logCalls[i].Caller,
                                            logCalls[i].Message,
                                            logCalls[i].Level)

\* C2 witness: a Verbose message under threshold Error went to the sink at
\* Verbose and not to the overlay.
C2_Witness ==
    /\ call.op = "LogMessage"
    /\ call.Level = Verbose
    /\ DisplayLogLevel = Error
    /\ Len(LogSink) = 1
    /\ LogSink[1].Verbosity = "Verbose"
    /\ Overlay = <<>>

\* C3: the threshold always equals the argument of the most recent
\* SetDisplayLogLevel call (Display before the first); the setter always
\* succeeds and takes the value given, setting the same value twice changes
\* nothing the second time, and no other operation changes the threshold.
C3_Threshold ==
    /\ [](/\ DisplayLogLevel = lastSet
          /\ (call.op = "SetDisplayLogLevel" => running))
    /\ [][/\ (call'.op = "SetDisplayLogLevel"
                => DisplayLogLevel' = call'.Level)
          /\ (call'.op # "SetDisplayLogLevel"
                => DisplayLogLevel' = DisplayLogLevel)
          /\ ((/\ call.op = "SetDisplayLogLevel"
               /\ call'.op = "SetDisplayLogLevel"
               /\ call'.Level = call.Level) => UNCHANGED vars)]_vars

\* C3 witness: the threshold was set to Error and a later gated call, which
\* logged, left it at Error.
C3_Witness ==
    /\ call.op = "LogOnCondition"
    /\ Len(logCalls) = 1
    /\ lastSet = Error
    /\ DisplayLogLevel = Error

\* C4: LogOnValidity calls LogMessage, once and with caller, message and
\* severity unchanged, exactly when (LogWhenInvalid and the object is absent
\* or destroyed) or (LogWhenValid and the object is live); in all four
\* combinations the outcome is IsValid for a live object and IsNotValid
\* otherwise.
C4_ValidityGate ==
    call.op = "LogOnValidity"
    => LET live == ~call.arg[1].isNull /\ call.arg[1].valid
           emits == \/ (call.arg[2] = "LogWhenInvalid" /\ ~live)
                    \/ (call.arg[2] = "LogWhenValid" /\ live)
       IN /\ logCalls = IF emits THEN PassedThrough(call.Message) ELSE <<>>
          /\ OutExecs = IF live THEN "IsValid" ELSE "IsNotValid"

\* C5: LogOnCondition calls LogMessage, once and with caller, message and
\* severity unchanged, exactly when (LogWhenTrue and condition) or
\* (LogWhenFalse and not condition); in all four combinations the outcome is
\* IsTrue for a true condition and IsFalse for a false one.
C5_ConditionGate ==
    call.op = "LogOnCondition"
    => LET emits == \/ (call.arg[2] = "LogWhenTrue" /\ call.arg[1])
                    \/ (call.arg[2] = "LogWhenFalse" /\ ~call.arg[1])
       IN /\ logCalls = IF emits THEN PassedThrough(call.Message) ELSE <<>>
          /\ OutExecs = IF call.arg[1] THEN "IsTrue" ELSE "IsFalse"

\* C6: LogMessage never interrupts the host: for every caller and every
\* severity, Fatal included, the call returns, so the process is still
\* running after any operation that called it.
C6_NeverInterrupts == logCalls # <<>> => running

\* C7: the line sent to the sink and to the overlay is
\* "[<SeverityName>]\t<ContextName>: <message>" with the bare name of the
\* severity, e.g. "[Warning]\tPawn1: Low health", the same text for both.
C7_LineShape ==
    \A i \in 1..Len(logCalls) :
        logCalls[i].Level \in ELoggerLevel
        => /\ LogSink[i].Text =
                "[" \o ELoggerLevelName(logCalls[i].Level) \o "]\t"
                    \o StatedContext(logCalls[i].Caller) \o ": "
                    \o logCalls[i].Message
           /\ \A j \in 1..Len(Overlay) : Overlay[j].Text = LogSink[i].Text

C9_TypedVariants ==
    /\ call.op \in {"LogBool", "LogInt", "LogFloat", "LogVector",
                    "LogRotator", "LogObject"}
         => /\ Len(logCalls) = 1
            /\ logCalls[1].Caller = call.Caller
            /\ logCalls[1].Level = call.Level
    /\ call.op = "LogBool"
         => logCalls[1].Message
              = call.Message \o ": "
                  \o (IF call.arg[1] THEN "true" ELSE "false")
    /\ (call.op = "LogObject" /\ call.arg[1].isNull)
         => logCalls[1].Message = call.Message \o ": NULL"
    /\ (call.op = "LogObject" /\ ~call.arg[1].isNull)
         => logCalls[1].Message = call.Message \o ": " \o call.arg[1].name
    /\ (call.op = "LogInt" /\ call.arg[1] = MaxIntValue)
         => logCalls[1].Message
              = call.Message \o ": " \o NatToString(MaxIntValue)

\* C10: every overlay post has duration 5 and the colour the table gives the
\* message's own severity, White for a severity the table lacks; the table
\* maps each of the seven severities to one colour, pairwise distinct.
C10_OverlayColour ==
    /\ \A i \in 1..Len(Overlay) :
          /\ Len(logCalls) = 1
          /\ Overlay[i].TimeToDisplay = 5
          /\ Overlay[i].Color =
                IF logCalls[1].Level \in DOMAIN LevelColorMap
                THEN LevelColorMap[logCalls[1].Level]
                ELSE "White"
    /\ DOMAIN LevelColorMap = ELoggerLevel
    /\ \A a, b \in ELoggerLevel :
          a # b => LevelColorMap[a] # LevelColorMap[b]
    /\ \A l \in Levels \ ELoggerLevel : GetColorForLevel(l) = "White"

\* C10 witness: a Warning message under threshold Display was posted in
\* Yellow, not in the threshold's Cyan.
C10_Witness ==
    /\ call.op = "LogMessage"
    /\ call.Level = Warning
    /\ DisplayLogLevel = Display
    /\ Len(Overlay) = 1
    /\ Overlay[1].Color = "Yellow"
    /\ Overlay[1].TimeToDisplay = 5

===========================================================================
